---- MODULE Spec2Model ----
(***************************************************************************)
(* A model of the SOLID demonstrations:                                    *)
(*   OpenClosed/open_closed.py          Specification, BetterFilter        *)
(*   LiskovSubstitution/liskov_substitution.py   Order                     *)
(*   SingleResponsibility/single_responsibility.py   Journal               *)
(*                                                                         *)
(* Python objects live in sequences indexed by their identity: heap for    *)
(* the Specification objects, products for the Product objects, orders     *)
(* for the Order instances.  A reference to an object is its index.        *)
(***************************************************************************)
EXTENDS Integers, Sequences, FiniteSets, TLC

VARIABLES
    heap,       \* the Specification objects, in order of construction
    products,   \* the Product objects
    ret,        \* the last call made and what it returned
    gen,        \* the generator object returned by BetterFilter.filter
    mats,       \* the lists obtained by iterating gen to its end, in order
    Order,      \* the attributes of class Order (shared by its instances)
    orders,     \* the instance dictionaries of the Order objects
    entries     \* Journal.entries of the journal

vars == <<heap, products, ret, gen, mats, Order, orders, entries>>

\* ------------------------------------------------------------------ bounds

\* longest *args tuple given to a composite constructor
MaxArgs == 3
\* number of Specification objects built in the composition runs
MaxHeap == 4
\* longest item list given to BetterFilter.filter
MaxItems == 3
\* number of times one generator is iterated to its end
MaxPasses == 2
\* number of Order objects constructed
MaxOrders == 2
\* number of add_item calls
MaxLines == 2
\* number of entries in the journal
MaxEntries == 3

\* sequences over S of length 0..n
SeqsUpTo(S, n) == UNION {[1..k -> S] : k \in 0..n}

\* ------------------------------------------------- open_closed.py: products

apple == [name |-> "Apple", color |-> "GREEN", size |-> "SMALL"]
tree == [name |-> "Tree", color |-> "GREEN", size |-> "LARGE"]
house == [name |-> "House", color |-> "BLUE", size |-> "LARGE"]

\* products = [apple, tree, house]
DemoProducts == <<apple, tree, house>>

\* ------------------------------------------ open_closed.py: specifications

\* A Specification object is [kind, value, specs].  A leaf has its captured
\* color or size in value and no _specs attribute (specs = <<>>); a composite
\* has its children in specs (the tuple args) and no captured value.
NoValue == "-"

CompositeKinds == {"And", "Or", "Xor"}

\* Each constructor takes the heap and returns the heap with the new object
\* appended; the reference to the new object is the length of the result.
ColorSpecification(h, color) ==
    Append(h, [kind |-> "Color", value |-> color, specs |-> <<>>])

SizeSpecification(h, size) ==
    Append(h, [kind |-> "Size", value |-> size, specs |-> <<>>])

AndSpecification(h, args) ==
    Append(h, [kind |-> "And", value |-> NoValue, specs |-> args])

OrSpecification(h, args) ==
    Append(h, [kind |-> "Or", value |-> NoValue, specs |-> args])

XorSpecification(h, args) ==
    Append(h, [kind |-> "Xor", value |-> NoValue, specs |-> args])

\* green = ColorSpecification(Color.GREEN); large = SizeSpecification(Size.LARGE)
DemoLeaves == SizeSpecification(ColorSpecification(<<>>, "GREEN"), "LARGE")

RECURSIVE is_satisfied(_, _, _)
RECURSIVE any(_, _)
RECURSIVE all(_, _)

\* any(iterator): consumes the iterator from position pos up to and including
\* the first true element.  Returns the answer and the position the iterator
\* is left at.
any(vals, pos) ==
    IF pos > Len(vals) THEN [result |-> FALSE, pos |-> pos]
    ELSE IF vals[pos] THEN [result |-> TRUE, pos |-> pos + 1]
    ELSE any(vals, pos + 1)

\* all(iterator): consumes up to and including the first false element.
all(vals, pos) ==
    IF pos > Len(vals) THEN [result |-> TRUE, pos |-> pos]
    ELSE IF ~vals[pos] THEN [result |-> FALSE, pos |-> pos + 1]
    ELSE all(vals, pos + 1)

\* map(lambda spec: spec.is_satisfied(item), self._specs): the values the map
\* iterator produces, in order.
satisfied_map(h, s, item) ==
    [k \in 1..Len(h[s].specs) |-> is_satisfied(h, h[s].specs[k], item)]

ColorSpecification_is_satisfied(h, s, item) ==
    products[item].color = h[s].value

SizeSpecification_is_satisfied(h, s, item) ==
    products[item].size = h[s].value

\* variant: a composite without children is never satisfied
AndSpecification_is_satisfied_nonempty(h, s, item) ==
    Len(h[s].specs) > 0 /\ all(satisfied_map(h, s, item), 1).result

AndSpecification_is_satisfied(h, s, item) ==
    all(satisfied_map(h, s, item), 1).result

\* variant: all() in the place of any()
OrSpecification_is_satisfied_all(h, s, item) ==
    all(satisfied_map(h, s, item), 1).result

OrSpecification_is_satisfied(h, s, item) ==
    any(satisfied_map(h, s, item), 1).result

\* variant: "any(satisfied) and not all(satisfied)" on the one iterator
XorSpecification_is_satisfied_any_not_all(h, s, item) ==
    LET satisfied == satisfied_map(h, s, item)
        first == any(satisfied, 1)
    IN  first.result /\ ~all(satisfied, first.pos).result

\* variant: satisfied held as a list, so that the second any() starts over
XorSpecification_is_satisfied_list(h, s, item) ==
    LET satisfied == satisfied_map(h, s, item)
    IN  any(satisfied, 1).result /\ ~any(satisfied, 1).result

\* satisfied is one map iterator: the second any() continues where the first
\* one stopped.
XorSpecification_is_satisfied(h, s, item) ==
    LET satisfied == satisfied_map(h, s, item)
        first == any(satisfied, 1)
    IN  first.result /\ ~any(satisfied, first.pos).result

is_satisfied(h, s, item) ==
    CASE h[s].kind = "Color" -> ColorSpecification_is_satisfied(h, s, item)
      [] h[s].kind = "Size" -> SizeSpecification_is_satisfied(h, s, item)
      [] h[s].kind = "And" -> AndSpecification_is_satisfied(h, s, item)
      [] h[s].kind = "Or" -> OrSpecification_is_satisfied(h, s, item)
      [] h[s].kind = "Xor" -> XorSpecification_is_satisfied(h, s, item)

\* the composite constructor of the given kind
Composite(h, kind, args) ==
    CASE kind = "And" -> AndSpecification(h, args)
      [] kind = "Or" -> OrSpecification(h, args)
      [] kind = "Xor" -> XorSpecification(h, args)

\* variant: an AND operand takes the other operand in and is returned itself
Specification_and_absorbing(h, self, other) ==
    IF h[self].kind = "And"
    THEN [h EXCEPT ![self].specs = Append(@, other)]
    ELSE AndSpecification(h, <<self, other>>)

\* self & other, self | other, self ^ other
Specification_and(h, self, other) == AndSpecification(h, <<self, other>>)

Specification_or(h, self, other) == OrSpecification(h, <<self, other>>)

Specification_xor(h, self, other) == XorSpecification(h, <<self, other>>)

\* ------------------------------------------------------------ return values

NoRet == [op |-> "none", self |-> 0, arg |-> 0, val |-> FALSE, new |-> 0]

\* ------------------------------------------------ states of the other parts

NoGen == [items |-> <<>>, spec |-> 0, idx |-> 0, state |-> "none"]

\* The class body binds items, quantities, prices and status on the class
\* object Order.  An instance dictionary (an element of orders) is a set of
\* <<attribute, value>> pairs; Order has no __init__, so it starts empty.
OrderClass == [items |-> <<>>, quantities |-> <<>>, prices |-> <<>>, status |-> "open"]

FilterIdle == gen = NoGen /\ mats = <<>>
OrderIdle == Order = OrderClass /\ orders = <<>>
JournalIdle == entries = <<>>

\* ---------------------------------------------------------- evaluation runs

\* One composite built over the two leaves, then calls of is_satisfied.
Init ==
    /\ products = DemoProducts
    /\ \E kind \in CompositeKinds, args \in SeqsUpTo(1..Len(DemoLeaves), MaxArgs) :
           heap = Composite(DemoLeaves, kind, args)
    /\ ret = NoRet
    /\ FilterIdle /\ OrderIdle /\ JournalIdle

\* variant: a composite holds its children as an iterator, which a call uses up
IsSatisfiedCall_consuming(s, item) ==
    /\ ret' = [op |-> "is_satisfied", self |-> s, arg |-> item,
               val |-> is_satisfied(heap, s, item), new |-> 0]
    /\ heap' = [heap EXCEPT ![s].specs = <<>>]
    /\ UNCHANGED <<products, gen, mats, Order, orders, entries>>

IsSatisfiedCall(s, item) ==
    /\ ret' = [op |-> "is_satisfied", self |-> s, arg |-> item,
               val |-> is_satisfied(heap, s, item), new |-> 0]
    /\ UNCHANGED <<heap, products, gen, mats, Order, orders, entries>>

Next ==
    \E s \in DOMAIN heap, item \in DOMAIN products : IsSatisfiedCall(s, item)

Spec == Init /\ [][Next]_vars

\* --------------------------------------------------------- composition runs

\* The two leaves; then specifications are combined with &, | and ^ and
\* is_satisfied is called on any of them, in any order.
InitCompose ==
    /\ products = DemoProducts
    /\ heap = DemoLeaves
    /\ ret = NoRet
    /\ FilterIdle /\ OrderIdle /\ JournalIdle

\* a & b
AndOp(a, b) ==
    /\ Len(heap) < MaxHeap
    /\ heap' = Specification_and(heap, a, b)
    /\ ret' = [op |-> "__and__", self |-> a, arg |-> b, val |-> FALSE, new |-> Len(heap')]
    /\ UNCHANGED <<products, gen, mats, Order, orders, entries>>

\* a | b
OrOp(a, b) ==
    /\ Len(heap) < MaxHeap
    /\ heap' = Specification_or(heap, a, b)
    /\ ret' = [op |-> "__or__", self |-> a, arg |-> b, val |-> FALSE, new |-> Len(heap')]
    /\ UNCHANGED <<products, gen, mats, Order, orders, entries>>

\* a ^ b
XorOp(a, b) ==
    /\ Len(heap) < MaxHeap
    /\ heap' = Specification_xor(heap, a, b)
    /\ ret' = [op |-> "__xor__", self |-> a, arg |-> b, val |-> FALSE, new |-> Len(heap')]
    /\ UNCHANGED <<products, gen, mats, Order, orders, entries>>

NextCompose ==
    \/ \E a, b \in DOMAIN heap : AndOp(a, b)
    \/ \E a, b \in DOMAIN heap : OrOp(a, b)
    \/ \E a, b \in DOMAIN heap : XorOp(a, b)
    \/ \E s \in DOMAIN heap, item \in DOMAIN products : IsSatisfiedCall(s, item)

SpecCompose == InitCompose /\ [][NextCompose]_vars

\* ------------------------------------------------ open_closed.py: the filter

\* The generator object BetterFilter.filter returns: the body has not run yet.
\* idx is the number of elements the for loop has taken from items.
BetterFilter_filter(items, spec) ==
    [items |-> items, spec |-> spec, idx |-> 0, state |-> "created"]

RECURSIVE generator_next_rewinding(_, _)
RECURSIVE generator_next(_, _)
RECURSIVE list(_, _)

\* variant: an object that starts over once it has been iterated to its end
generator_next_rewinding(h, g) ==
    IF g.idx >= Len(g.items)
    THEN [stop |-> TRUE, item |-> 0, gen |-> [g EXCEPT !.idx = 0, !.state = "created"]]
    ELSE LET item == g.items[g.idx + 1]
             g2 == [g EXCEPT !.idx = @ + 1, !.state = "suspended"]
         IN  IF is_satisfied(h, g.spec, item)
             THEN [stop |-> FALSE, item |-> item, gen |-> g2]
             ELSE generator_next_rewinding(h, g2)

\* variant: the loop takes the item after the one it tested
generator_next_skipping(h, g) ==
    IF g.state = "finished" \/ g.idx >= Len(g.items)
    THEN [stop |-> TRUE, item |-> 0, gen |-> [g EXCEPT !.state = "finished"]]
    ELSE LET item == g.items[g.idx + 1]
             g2 == [g EXCEPT !.idx = @ + 1, !.state = "suspended"]
         IN  IF is_satisfied(h, g.spec, item)
             THEN [stop |-> FALSE, item |-> item, gen |-> g2]
             ELSE [stop |-> TRUE, item |-> 0, gen |-> [g2 EXCEPT !.state = "finished"]]

\* next(generator): resumes the body of filter up to its next yield.  A
\* finished generator, or a loop that runs off the end of items, raises
\* StopIteration (stop) and the generator is finished for good.
generator_next(h, g) ==
    IF g.state = "finished" \/ g.idx >= Len(g.items)
    THEN [stop |-> TRUE, item |-> 0, gen |-> [g EXCEPT !.state = "finished"]]
    ELSE LET item == g.items[g.idx + 1]
             g2 == [g EXCEPT !.idx = @ + 1, !.state = "suspended"]
         IN  IF is_satisfied(h, g.spec, item)
             THEN [stop |-> FALSE, item |-> item, gen |-> g2]
             ELSE generator_next(h, g2)

\* list(generator), and equally "for item in generator": calls next until
\* StopIteration.  Returns the items obtained and the generator as it is left.
list(h, g) ==
    LET r == generator_next(h, g)
    IN  IF r.stop THEN [list |-> <<>>, gen |-> r.gen]
        ELSE LET rest == list(h, r.gen)
             IN  [list |-> <<r.item>> \o rest.list, gen |-> rest.gen]

\* One composite built over the two leaves; then filter calls, each result
\* iterated to its end up to MaxPasses times.
InitFilter ==
    /\ products = DemoProducts
    /\ \E kind \in CompositeKinds, args \in SeqsUpTo(1..Len(DemoLeaves), MaxArgs) :
           heap = Composite(DemoLeaves, kind, args)
    /\ ret = NoRet
    /\ FilterIdle /\ OrderIdle /\ JournalIdle

\* bf.filter(items, spec).  A run follows the one generator object this call
\* returns.
FilterCall(items, spec) ==
    /\ gen.state = "none"
    /\ gen' = BetterFilter_filter(items, spec)
    /\ mats' = <<>>
    /\ UNCHANGED <<heap, products, ret, Order, orders, entries>>

\* list(filtered) / print_filtered_products(title, filtered)
Materialize ==
    /\ gen.state # "none"
    /\ Len(mats) < MaxPasses
    /\ LET r == list(heap, gen)
       IN  /\ mats' = Append(mats, r.list)
           /\ gen' = r.gen
    /\ UNCHANGED <<heap, products, ret, Order, orders, entries>>

NextFilter ==
    \/ \E items \in SeqsUpTo(DOMAIN products, MaxItems), spec \in DOMAIN heap :
           FilterCall(items, spec)
    \/ Materialize

SpecFilter == InitFilter /\ [][NextFilter]_vars

\* ------------------------------------------ liskov_substitution.py: Order

\* attribute lookup self.name: the instance dictionary first, then the class
own(o, name) == \E p \in orders[o] : p[1] = name

getattr(o, name) ==
    IF own(o, name) THEN (CHOOSE p \in orders[o] : p[1] = name)[2]
    ELSE Order[name]

RECURSIVE total_price_loop(_, _, _)

\* for i in range(len(self.prices)): total += self.quantities[i] + self.prices[i]
total_price_loop(o, i, total) ==
    IF i > Len(getattr(o, "prices")) THEN total
    ELSE total_price_loop(o, i + 1, total + (getattr(o, "quantities")[i] + getattr(o, "prices")[i]))

total_price(o) == total_price_loop(o, 1, 0)

ItemNames == {"Keyboard", "Mouse"}
Quantities == {1, 2}
Prices == {100, 150}

InitOrder ==
    /\ Order = OrderClass
    /\ orders = <<>>
    /\ ret = NoRet
    /\ products = DemoProducts /\ heap = DemoLeaves
    /\ FilterIdle /\ JournalIdle

\* Order()
NewOrder ==
    /\ Len(orders) < MaxOrders
    /\ orders' = Append(orders, {})
    /\ ret' = [op |-> "Order", self |-> Len(orders) + 1, arg |-> 0, val |-> FALSE, new |-> 0]
    /\ UNCHANGED <<heap, products, gen, mats, Order, entries>>

\* o.add_item(name, quantity, price).  Nothing ever binds items, quantities
\* or prices on an instance, so self.items, self.quantities and self.prices
\* are the lists of the class, and append changes those lists in place.
AddItem(o, name, quantity, price) ==
    /\ Len(Order.items) < MaxLines
    /\ ~own(o, "items") /\ ~own(o, "quantities") /\ ~own(o, "prices")
    /\ Order' = [Order EXCEPT !.items = Append(@, name),
                              !.quantities = Append(@, quantity),
                              !.prices = Append(@, price)]
    /\ ret' = [op |-> "add_item", self |-> o, arg |-> 0, val |-> FALSE, new |-> 0]
    /\ UNCHANGED <<heap, products, gen, mats, orders, entries>>

\* o.total_price()
TotalPrice(o) ==
    /\ ret' = [op |-> "total_price", self |-> o, arg |-> 0, val |-> FALSE, new |-> total_price(o)]
    /\ UNCHANGED <<heap, products, gen, mats, Order, orders, entries>>

\* processor.pay(o): order.status = "paid" binds status on the instance
Pay(o) ==
    /\ orders' = [orders EXCEPT ![o] = {p \in @ : p[1] # "status"} \cup {<<"status", "paid">>}]
    /\ ret' = [op |-> "pay", self |-> o, arg |-> 0, val |-> FALSE, new |-> 0]
    /\ UNCHANGED <<heap, products, gen, mats, Order, entries>>

NextOrder ==
    \/ NewOrder
    \/ \E o \in DOMAIN orders, name \in ItemNames, quantity \in Quantities, price \in Prices :
           AddItem(o, name, quantity, price)
    \/ \E o \in DOMAIN orders : TotalPrice(o)
    \/ \E o \in DOMAIN orders : Pay(o)

SpecOrder == InitOrder /\ [][NextOrder]_vars

\* -------------------------------------- single_responsibility.py: Journal

\* del list[i]: a negative index counts from the end, an index outside the
\* list raises IndexError and leaves the list as it is
list_del(l, i) ==
    LET j == IF i < 0 THEN i + Len(l) ELSE i
    IN  IF j < 0 \/ j >= Len(l)
        THEN [raised |-> TRUE, list |-> l]
        ELSE [raised |-> FALSE,
              list |-> [k \in 1..(Len(l) - 1) |-> IF k <= j THEN l[k] ELSE l[k + 1]]]

\* variant: the entry number used as the index
Journal_remove_entry_index(e, entry_num) == list_del(e, entry_num)

\* del self.entries[entry_num - 1]
Journal_remove_entry(e, entry_num) == list_del(e, entry_num - 1)

\* __str__: one line <<index + 1, entry>> per entry, in order
Journal_str(e) == [index \in 1..Len(e) |-> <<(index - 1) + 1, e[index]>>]

Texts == {"I cried today.", "I ate a bug.", "Hello"}

InitJournal ==
    /\ entries = <<>>
    /\ ret = NoRet
    /\ products = DemoProducts /\ heap = DemoLeaves
    /\ FilterIdle /\ OrderIdle

\* j.add_entry(text)
AddEntry(text) ==
    /\ Len(entries) < MaxEntries
    /\ entries' = Append(entries, text)
    /\ ret' = [op |-> "add_entry", self |-> 0, arg |-> 0, val |-> TRUE, new |-> 0]
    /\ UNCHANGED <<heap, products, gen, mats, Order, orders>>

\* j.remove_entry(entry_num); ret.val tells whether the call returned
\* (it raises IndexError otherwise)
RemoveEntry(entry_num) ==
    /\ LET r == Journal_remove_entry(entries, entry_num)
       IN  /\ entries' = r.list
           /\ ret' = [op |-> "remove_entry", self |-> 0, arg |-> entry_num,
                      val |-> ~r.raised, new |-> 0]
    /\ UNCHANGED <<heap, products, gen, mats, Order, orders>>

NextJournal ==
    \/ \E text \in Texts : AddEntry(text)
    \/ \E entry_num \in (0 - MaxEntries)..(MaxEntries + 1) : RemoveEntry(entry_num)

SpecJournal == InitJournal /\ [][NextJournal]_vars

\* ------------------------------------------------------------------ claims

\* the number of children of s that item satisfies
NumSatisfied(h, s, item) ==
    Cardinality({k \in 1..Len(h[s].specs) : is_satisfied(h, h[s].specs[k], item)})

\* C1: a call of is_satisfied on a XorSpecification with any number of
\* children returns true exactly when one and only one child is satisfied by
\* the item.
C1_XorExactlyOne ==
    (ret.op = "is_satisfied" /\ heap[ret.self].kind = "Xor")
        => (ret.val <=> NumSatisfied(heap, ret.self, ret.arg) = 1)

\* a three-child XOR whose middle child alone is satisfied has answered true
C1_Witness ==
    /\ ret.op = "is_satisfied"
    /\ heap[ret.self].kind = "Xor"
    /\ Len(heap[ret.self].specs) = 3
    /\ {k \in 1..3 : is_satisfied(heap, heap[ret.self].specs[k], ret.arg)} = {2}
    /\ ret.val

\* the children of a composite rearranged by p
Permuted(specs, p) == [k \in 1..Len(specs) |-> specs[p[k]]]

Perms(n) == {p \in [1..n -> 1..n] : \A i, j \in 1..n : p[i] = p[j] => i = j}

\* (a op b) op c, a op (b op c) and the three-child composite op(a, b, c)
\* agree on item; kind is "And" or "Or"
NestingAgrees(kind, a, b, c, item) ==
    LET h1 == Composite(heap, kind, <<a, b>>)
        ab == Len(h1)
        h2 == Composite(h1, kind, <<ab, c>>)
        left == Len(h2)
        h3 == Composite(h2, kind, <<b, c>>)
        bc == Len(h3)
        h4 == Composite(h3, kind, <<a, bc>>)
        right == Len(h4)
        h5 == Composite(h4, kind, <<a, b, c>>)
        flat == Len(h5)
    IN  /\ is_satisfied(h5, left, item) = is_satisfied(h5, right, item)
        /\ is_satisfied(h5, left, item) = is_satisfied(h5, flat, item)

\* C7: the answer of an AND, OR or XOR composite is the same for every
\* rearrangement of its children, and for AND and OR the two nestings of
\* three specifications and the flat three-child composite agree.
C7_OrderAndNestingIrrelevant ==
    /\ \A s \in DOMAIN heap, item \in DOMAIN products :
           heap[s].kind \in CompositeKinds =>
               \A p \in Perms(Len(heap[s].specs)) :
                   LET h == Composite(heap, heap[s].kind, Permuted(heap[s].specs, p))
                   IN  is_satisfied(h, Len(h), item) = is_satisfied(heap, s, item)
    /\ \A a, b, c \in DOMAIN heap, item \in DOMAIN products :
           /\ NestingAgrees("And", a, b, c, item)
           /\ NestingAgrees("Or", a, b, c, item)

\* a XOR of (large, green) was asked about the apple, which satisfies only
\* the second child, and answered true
C7_Witness ==
    /\ ret.op = "is_satisfied"
    /\ heap[ret.self].kind = "Xor"
    /\ heap[ret.self].specs = <<2, 1>>
    /\ products[ret.arg] = apple
    /\ ret.val

\* the first list obtained from gen is complete
FirstPassDone == gen.state # "none" /\ Len(mats) >= 1

\* the items of gen.items that gen.spec is satisfied by, in their order
Expected == SelectSeq(gen.items, LAMBDA i : is_satisfied(heap, gen.spec, i))

\* C2: an AndSpecification is satisfied by an item exactly when every child
\* is; one without children is satisfied by every item, and filtering by it
\* yields all the items.
C2_AndAllChildren ==
    /\ \A s \in DOMAIN heap, item \in DOMAIN products :
           heap[s].kind = "And" =>
               (is_satisfied(heap, s, item) <=>
                    \A k \in 1..Len(heap[s].specs) :
                        is_satisfied(heap, heap[s].specs[k], item))
    /\ (FirstPassDone /\ heap[gen.spec].kind = "And" /\ heap[gen.spec].specs = <<>>)
           => mats[1] = gen.items

\* the three products were filtered by AndSpecification() and all came out
C2_Witness ==
    /\ FirstPassDone
    /\ heap[gen.spec].kind = "And" /\ heap[gen.spec].specs = <<>>
    /\ gen.items = <<1, 2, 3>>
    /\ mats[1] = <<1, 2, 3>>

\* C3: an OrSpecification is satisfied by an item exactly when at least one
\* child is; one without children is satisfied by no item, and filtering by
\* it yields nothing.
C3_OrSomeChild ==
    /\ \A s \in DOMAIN heap, item \in DOMAIN products :
           heap[s].kind = "Or" =>
               (is_satisfied(heap, s, item) <=>
                    \E k \in 1..Len(heap[s].specs) :
                        is_satisfied(heap, heap[s].specs[k], item))
    /\ (FirstPassDone /\ heap[gen.spec].kind = "Or" /\ heap[gen.spec].specs = <<>>)
           => mats[1] = <<>>

\* the three products were filtered by OrSpecification() and none came out
C3_Witness ==
    /\ FirstPassDone
    /\ heap[gen.spec].kind = "Or" /\ heap[gen.spec].specs = <<>>
    /\ gen.items = <<1, 2, 3>>
    /\ mats[1] = <<>>

\* C4: iterating the result of filter(items, spec) to its end gives exactly
\* the items of the input that satisfy spec, each occurrence once, in the
\* order of the input.
C4_FilterIsSubsequence ==
    FirstPassDone => mats[1] = Expected

\* a list with a repeated product and a product that fails the specification
\* was filtered: the repeated one came out twice, the failing one not at all
C4_Witness ==
    /\ FirstPassDone
    /\ gen.items = <<2, 1, 2>>
    /\ mats[1] = <<2, 2>>

\* C5 as stated: the second iteration of the same returned object gives the
\* same list as the first.
C5_SamePassTwice ==
    Len(mats) >= 2 => mats[2] = mats[1]

\* C5 amended: the first iteration of the returned generator gives the
\* filtered items and every later iteration of the same object gives nothing,
\* so two iterations agree exactly when no item satisfies the specification.
C5_SecondPassEmpty ==
    \A k \in 2..Len(mats) :
        /\ mats[1] = Expected
        /\ mats[k] = <<>>
        /\ (mats[k] = mats[1] <=>
               \A j \in 1..Len(gen.items) : ~is_satisfied(heap, gen.spec, gen.items[j]))

\* a generator that yielded two items was iterated a second time
C5_Witness ==
    /\ Len(mats) >= 2
    /\ Len(mats[1]) = 2
    /\ mats[2] = <<>>
    /\ gen.state = "finished"

\* the composite kind each operator builds
OperatorKind(op) ==
    CASE op = "__and__" -> "And"
      [] op = "__or__" -> "Or"
      [] op = "__xor__" -> "Xor"

\* C6: a & b, a | b and a ^ b each return a new AndSpecification,
\* OrSpecification, XorSpecification whose children are (a, b) in that order,
\* and every specification that existed before, the operands included, has
\* the captured value and the children it had before.
C6_OperatorsBuildNew ==
    [][ret'.op \in {"__and__", "__or__", "__xor__"} =>
           /\ ret'.new = Len(heap) + 1
           /\ Len(heap') = Len(heap) + 1
           /\ heap'[ret'.new].kind = OperatorKind(ret'.op)
           /\ heap'[ret'.new].specs = <<ret'.self, ret'.arg>>
           /\ \A o \in DOMAIN heap : heap'[o] = heap[o]]_vars

\* (green & large) & green was built: the left operand still has its two
\* children
C6_Witness ==
    /\ ret.op = "__and__"
    /\ ret.self = 3 /\ ret.arg = 1 /\ ret.new = 4
    /\ heap[3].kind = "And" /\ heap[3].specs = <<1, 2>>
    /\ heap[4].kind = "And" /\ heap[4].specs = <<3, 1>>

\* C8: a call of is_satisfied changes no field of any specification or of
\* any product and returns the answer of the specification for the item; and
\* no step, be it a call on another item or specification or a composition
\* over the same children, changes the answer of an existing specification
\* for any item.
C8_Deterministic ==
    [][/\ ret'.op = "is_satisfied" =>
              /\ heap' = heap
              /\ products' = products
              /\ ret'.val = is_satisfied(heap, ret'.self, ret'.arg)
       /\ \/ heap' = heap /\ products' = products
          \/ \A o \in DOMAIN heap, i \in DOMAIN products :
                 /\ o \in DOMAIN heap'
                 /\ is_satisfied(heap', o, i) = is_satisfied(heap, o, i)]_vars

\* is_satisfied was called on a composite whose first child is itself a
\* composite over the two leaves, another composite sharing those leaves
\* existing beside it
C8_Witness ==
    /\ ret.op = "is_satisfied"
    /\ Len(heap) = 4
    /\ ret.self = 4
    /\ heap[4].kind = "Xor" /\ heap[4].specs = <<3, 2>>
    /\ heap[3].kind = "Or" /\ heap[3].specs = <<1, 2>>
    /\ ret.val

\* C9 as stated: a newly constructed Order has no items, quantities or
\* prices, and add_item on one Order leaves the items, quantities and prices
\* of every other Order as they were.
C9_OrdersIndependent ==
    /\ [](ret.op = "Order" =>
              /\ getattr(ret.self, "items") = <<>>
              /\ getattr(ret.self, "quantities") = <<>>
              /\ getattr(ret.self, "prices") = <<>>)
    /\ [][ret'.op = "add_item" =>
              \A o \in DOMAIN orders :
                  o # ret'.self =>
                      /\ getattr(o, "items")' = getattr(o, "items")
                      /\ getattr(o, "quantities")' = getattr(o, "quantities")
                      /\ getattr(o, "prices")' = getattr(o, "prices")]_vars

\* the entries without the k-th one
WithoutEntry(e, k) == [j \in 1..(Len(e) - 1) |-> IF j < k THEN e[j] ELSE e[j + 1]]

RECURSIVE SumOfLines(_, _, _)

\* the sum of quantity times price over the first n lines
SumOfLines(quantities, prices, n) ==
    IF n = 0 THEN 0
    ELSE SumOfLines(quantities, prices, n - 1) + quantities[n] * prices[n]

\* C11 as stated: total_price() returns the sum of quantity times price over
\* the lines the order shows (0 when it shows none), and leaves items,
\* quantities, prices and status as they were.
C11_TotalIsSumOfProducts ==
    /\ [](ret.op = "total_price" =>
              ret.new = SumOfLines(getattr(ret.self, "quantities"),
                                   getattr(ret.self, "prices"),
                                   Len(getattr(ret.self, "prices"))))
    /\ [][ret'.op = "total_price" => (Order' = Order /\ orders' = orders)]_vars

====
